---- MODULE Spec2Model ----
(***************************************************************************)
(* A model of open_ce/build_tree.py: the DependencyNode graph, its         *)
(* construction per variant (node creation, local edge linking, remote     *)
(* dependency resolution, composition, cycle detection, start nodes), the  *)
(* final stripping of external nodes, and the postorder traversal.         *)
(*                                                                         *)
(* A package string "name qualifier" is the pair <<name, qualifier>>; a    *)
(* bare name has the qualifier "".                                         *)
(***************************************************************************)
EXTENDS Integers, Sequences, FiniteSets, TLC

VARIABLES
    pc,                 \* position in BuildTree.__init__ / __iter__ / the traversal harness
    axes,               \* the four requested axes: python_versions, build_types, ...
    packages_arg,       \* the `packages` argument (filter), a set of package strings
    env_config,         \* what the environment descriptors and the renderer give
    channel,            \* what the external channel answers, per package name
    possible_variants,  \* self._possible_variants, a sequence of variant records
    vidx,               \* index of the variant the constructor loop is at
    tree,               \* self._tree, the composed graph
    variant_tree,       \* the variant graph under construction
    variant_deps,       \* external_deps returned by _create_nodes for the variant
    deps,               \* _create_remote_deps: the work set
    seen,               \* _create_remote_deps: package names already processed
    queried,            \* history: the calls of get_latest_package_info
    external_dependencies, \* self._external_dependencies
    conda_env_files,    \* self._conda_env_files (arguments of the generator)
    test_feedstocks,    \* self._test_feedstocks
    initial_nodes,      \* self._initial_nodes
    start_nodes,        \* variant_start_nodes of the current variant
    validate_args,      \* the arguments collected for validate_build_tree
    notices,            \* log.info notices: <<package, variant string>>
    error,              \* the error raised by the constructor, or NoError
    yielded,            \* the sequence of nodes yielded by a traversal
    t_graph,            \* traversal harness: the graph handed to traverse_build_commands
    t_start,            \* traversal harness: the starting_nodes argument
    global_channels,    \* self._channels, the channels argument of the constructor
    h_in,               \* function harness: the arguments drawn for the function
    h_out               \* function harness: what the function returned

vars == <<pc, axes, packages_arg, env_config, channel, possible_variants, vidx, tree, variant_tree, variant_deps,
          deps, seen, queried, external_dependencies, conda_env_files, test_feedstocks,
          initial_nodes, start_nodes, validate_args, notices, error, yielded,
          t_graph, t_start, global_channels, h_in, h_out>>

----------------------------------------------------------------------------
(* Bounds *)

MaxDeps == 2          \* dependency strings per rendered recipe
MaxRemoteDeps == 1    \* dependency strings per external channel answer
MaxVariants == 2      \* variants in the Cartesian product
MaxEdges == 4         \* edges of a graph drawn for the traversal harness
MaxLoad == 4          \* variants times dependency strings and channels of the input

----------------------------------------------------------------------------
(* Package strings *)

Pkg(name, qualifier) == <<name, qualifier>>

\* utils.remove_version: the package name without its version qualifier
remove_version(package) == package[1]

StrippedNames(packages) == {remove_version(p) : p \in packages}

----------------------------------------------------------------------------
(* BuildCommand and DependencyNode *)

NoVariant == [python |-> "", build_type |-> "", mpi_type |-> "", cudatoolkit |-> ""]

\* build_command=None
None == [recipe |-> "None", variant |-> NoVariant, dependencies |-> {},
         repository |-> "None", channels |-> <<>>]

BuildCommand(recipe, variant, dependencies, repository, channels) ==
    [recipe |-> recipe, variant |-> variant, dependencies |-> dependencies,
     repository |-> repository, channels |-> channels]

\* BuildCommand.__eq__: the identifying fields are the recipe and the variant axes
CommandEq(c1, c2) == c1.recipe = c2.recipe /\ c1.variant = c2.variant

\* hash(build_command); hash(None) for an external node
CommandHash(c) == <<c.recipe, c.variant>>

\* DependencyNode(packages, build_command, channels); the hash is taken from
\* the build command once, at construction
DependencyNodeFrom(packages, build_command, channels) ==
    [packages |-> packages, build_command |-> build_command, channels |-> channels,
     _hash_val |-> CommandHash(build_command)]

\* DependencyNode(packages, build_command): channels=None gives []
DependencyNode(packages, build_command) ==
    DependencyNodeFrom(packages, build_command, <<>>)

HasCommand(node) == node.build_command # None

\* false_start_node = "Starting Node": the one graph key that is no
\* DependencyNode, a string with the hash of a string
false_start_node ==
    [packages |-> {},
     build_command |-> [recipe |-> "Starting Node", variant |-> NoVariant,
                        dependencies |-> {}, repository |-> "None", channels |-> <<>>],
     channels |-> <<>>,
     _hash_val |-> <<"Starting Node">>]

\* isinstance(current, DependencyNode)
IsDependencyNode(n) == n # false_start_node

\* mutant: the hash is computed from the packages
NodeHashOfPackages(node) == node.packages

\* DependencyNode.__hash__: the value stored at construction
NodeHash(node) == node._hash_val

\* mutant: `or` for `and`, the commands are compared when either node has one
NodeEqEither(n1, n2) ==
    IF ~IsDependencyNode(n2) THEN FALSE
    ELSE IF HasCommand(n1) \/ HasCommand(n2)
    THEN CommandEq(n1.build_command, n2.build_command)
    ELSE n1.packages = n2.packages

\* DependencyNode.__eq__(self, other)
NodeEq(n1, n2) ==
    IF ~IsDependencyNode(n2) THEN FALSE
    ELSE IF HasCommand(n1) /\ HasCommand(n2)
    THEN CommandEq(n1.build_command, n2.build_command)
    ELSE n1.packages = n2.packages

\* Two nodes are the same dictionary key when hash and equality agree
SameKey(n1, n2) == NodeHash(n1) = NodeHash(n2) /\ NodeEq(n1, n2)

----------------------------------------------------------------------------
(* Graph: a directed graph keyed by node *)

EmptyGraph == [nodes |-> {}, edges |-> {}]

HasNode(g, n) == \E m \in g.nodes : SameKey(m, n)

\* the node object the graph holds for key n
Stored(g, n) == IF HasNode(g, n) THEN CHOOSE m \in g.nodes : SameKey(m, n) ELSE n

add_node(g, n) == IF HasNode(g, n) THEN g ELSE [g EXCEPT !.nodes = @ \cup {n}]

add_edge(g, u, v) ==
    LET g1 == add_node(add_node(g, u), v)
    IN  [g1 EXCEPT !.edges = @ \cup {<<Stored(g1, u), Stored(g1, v)>>}]

remove_node(g, n) ==
    [nodes |-> {m \in g.nodes : ~SameKey(m, n)},
     edges |-> {e \in g.edges : ~SameKey(e[1], n) /\ ~SameKey(e[2], n)}]

RECURSIVE AddNodes(_, _)
AddNodes(g, ns) ==
    IF ns = {} THEN g
    ELSE LET n == CHOOSE m \in ns : TRUE IN AddNodes(add_node(g, n), ns \ {n})

RECURSIVE AddEdges(_, _)
AddEdges(g, es) ==
    IF es = {} THEN g
    ELSE LET e == CHOOSE f \in es : TRUE IN AddEdges(add_edge(g, e[1], e[2]), es \ {e})

\* networkx.compose(G, H): the nodes and edges of both
compose(g, h) == AddEdges(AddEdges(AddNodes(AddNodes(EmptyGraph, g.nodes), h.nodes),
                                   g.edges), h.edges)

successors(g, n) == {e[2] : e \in {f \in g.edges : f[1] = n}}

predecessors(g, n) == {e[1] : e \in {f \in g.edges : f[2] = n}}

in_degree(g, n) == Cardinality(predecessors(g, n))

RECURSIVE ReachFrom(_, _)
\* the nodes reachable from the set `front` by zero or more edges
ReachFrom(g, front) ==
    LET next == front \cup UNION {successors(g, n) : n \in front}
    IN  IF next = front THEN front ELSE ReachFrom(g, next)

\* networkx.descendants(g, n): reachable by one or more edges, n excluded
descendants(g, n) == ReachFrom(g, successors(g, n)) \ {n}

\* n reaches m by a path of at least one edge
Reaches(g, n, m) == m \in ReachFrom(g, successors(g, n))

----------------------------------------------------------------------------
(* traverse_build_commands *)

RECURSIVE DfsVisit(_, _, _)
RECURSIVE DfsChildren(_, _, _, _)

\* mutant: the node is emitted before its children (a preorder walk)
DfsVisitPreorder(g, n, visited) ==
    {[order |-> <<n>> \o r.order, visited |-> r.visited] :
        r \in DfsChildren(g, n, visited \cup {n}, <<>>)}

\* networkx.dfs_postorder_nodes below node n: every result the adjacency order
\* allows, as [order, visited]; n is emitted after its children
DfsVisit(g, n, visited) ==
    {[order |-> Append(r.order, n), visited |-> r.visited] :
        r \in DfsChildren(g, n, visited \cup {n}, <<>>)}

DfsChildren(g, n, visited, order) ==
    LET todo == successors(g, n) \ visited
    IN  IF todo = {} THEN {[order |-> order, visited |-> visited]}
        ELSE UNION {UNION {DfsChildren(g, n, r.visited, order \o r.order) :
                              r \in DfsVisit(g, c, visited)} : c \in todo}

RECURSIVE DfsAll(_, _, _)
\* networkx.dfs_postorder_nodes(G) without a source: every node of G is a root
DfsAll(g, visited, order) ==
    LET todo == g.nodes \ visited
    IN  IF todo = {} THEN {order}
        ELSE UNION {UNION {DfsAll(g, r.visited, order \o r.order) :
                              r \in DfsVisit(g, c, visited)} : c \in todo}

\* mutant: the build_command test is dropped, external nodes are yielded
YieldsExternal(current) == IsDependencyNode(current)

\* the two tests a node passes before it is yielded
Yields(current) == IsDependencyNode(current) /\ HasCommand(current)

\* new_graph = build_tree with the copy left out: both names are one object
GraphAlias(objects) == [ref |-> "build_tree", objects |-> objects]

\* new_graph = build_tree.copy(): the graph objects by name after the call,
\* and the object new_graph names
GraphCopy(objects) ==
    [ref |-> "new_graph", objects |-> [objects EXCEPT !.new_graph = objects.build_tree]]

\* a run of traverse_build_commands(build_tree, starting_nodes,
\* return_node=True) to its end: the sequences of nodes it can yield, each
\* with the caller's graph as the run leaves it
TraverseCall(build_tree, starting_nodes) ==
    IF starting_nodes # {}
    THEN LET c == GraphCopy([build_tree |-> build_tree, new_graph |-> EmptyGraph])
             objects == [c.objects EXCEPT
                            ![c.ref] = AddEdges(add_node(@, false_start_node),
                                                {<<false_start_node, dep>> :
                                                    dep \in starting_nodes})]
         IN  {[yielded |-> SelectSeq(r.order, Yields), build_tree |-> objects.build_tree] :
                 r \in DfsVisit(objects[c.ref], false_start_node, {})}
    ELSE {[yielded |-> SelectSeq(order, Yields), build_tree |-> build_tree] :
             order \in DfsAll(build_tree, {}, <<>>)}

\* the sequences of nodes traverse_build_commands(build_tree, starting_nodes,
\* return_node=True) can yield
traverse_build_commands(build_tree, starting_nodes) ==
    {r.yielded : r \in TraverseCall(build_tree, starting_nodes)}

Range(s) == {s[i] : i \in 1..Len(s)}

\* the set of nodes a traversal yields, as the callers that build sets use it
TraversedSet(build_tree, starting_nodes) ==
    Range(CHOOSE s \in traverse_build_commands(build_tree, starting_nodes) : TRUE)

----------------------------------------------------------------------------
(* Traversal harness: traverse_build_commands on drawn graphs *)

TVariant == [python |-> "3.6", build_type |-> "cpu", mpi_type |-> "openmpi",
             cudatoolkit |-> "10.2"]

TA == DependencyNode({Pkg("a", "")}, BuildCommand("A", TVariant, {}, "repoA", <<>>))
TB == DependencyNode({Pkg("b", "")}, BuildCommand("B", TVariant, {}, "repoB", <<>>))
TC == DependencyNode({Pkg("c", "")}, BuildCommand("C", TVariant, {}, "repoC", <<>>))
TX == DependencyNode({Pkg("x", "")}, None)

TNodes == {TA, TB, TC, TX}

TEdgeCandidates == {e \in TNodes \X TNodes : e[1] # e[2] \/ ~HasCommand(e[1])}

TGraphs ==
    {[nodes |-> ns, edges |-> es] :
        ns \in {TNodes, TNodes \ {TC}},
        es \in {s \in SUBSET TEdgeCandidates : Cardinality(s) <= MaxEdges}} \cap
    {g \in [nodes : SUBSET TNodes, edges : SUBSET TEdgeCandidates] :
        \A e \in g.edges : e[1] \in g.nodes /\ e[2] \in g.nodes}

NoAxes == [python_versions |-> {}, build_types |-> {}, mpi_types |-> {},
           cuda_versions |-> {}]

NoEnv == [recipes |-> {}, external_dependencies |-> {}, channels |-> <<>>]

\* the package names the external channel can be asked about
QueryNames == {"b", "x", "y"}

\* a channel answer: package_info with its dependencies, "" for a virtual
\* package, or a failing query; Unknown before the first query of a name
Unknown == [kind |-> "unknown", dependencies |-> {}]

NoMsg == [text |-> "none", packages |-> {}, cycles |-> {}]

NoCause == [kind |-> "none", msg |-> NoMsg]

NoError == [kind |-> "none", msg |-> NoMsg, cause |-> NoCause]

Idle ==
    /\ axes = NoAxes
    /\ packages_arg = {}
    /\ env_config = NoEnv
    /\ channel = [n \in QueryNames |-> Unknown]
    /\ possible_variants = <<>>
    /\ vidx = 0
    /\ tree = EmptyGraph
    /\ variant_tree = EmptyGraph
    /\ variant_deps = {}
    /\ deps = {}
    /\ seen = {}
    /\ queried = {}
    /\ external_dependencies = <<>>
    /\ conda_env_files = <<>>
    /\ test_feedstocks = <<>>
    /\ initial_nodes = {}
    /\ start_nodes = {}
    /\ validate_args = <<>>
    /\ notices = {}
    /\ error = NoError
    /\ global_channels = <<>>

TInit ==
    /\ Idle
    /\ h_in = <<>>
    /\ h_out = <<>>
    /\ pc = "traverse"
    /\ t_graph \in TGraphs
    /\ t_start \in SUBSET TNodes
    /\ yielded = <<>>

TTraverse ==
    /\ pc = "traverse"
    /\ \E r \in TraverseCall(t_graph, t_start) :
          /\ yielded' = r.yielded
          /\ t_graph' = r.build_tree
    /\ pc' = "traversed"
    /\ UNCHANGED <<axes, packages_arg, env_config, channel, possible_variants, vidx, tree,
                   variant_tree, variant_deps, deps, seen, queried,
                   external_dependencies, conda_env_files, test_feedstocks, initial_nodes,
                   start_nodes, validate_args, notices, error, t_start, global_channels, h_in, h_out>>

TNext == TTraverse

SpecTraverse == TInit /\ [][TNext]_vars

----------------------------------------------------------------------------
(* Inputs of BuildTree.__init__ *)

RECURSIVE SetToSeq(_)
SetToSeq(S) ==
    IF S = {} THEN <<>>
    ELSE LET x == CHOOSE y \in S : TRUE IN <<x>> \o SetToSeq(S \ {x})

\* utils.make_variants: the Cartesian product of the four axes, each once
make_variants(python_versions, build_types, mpi_types, cuda_versions) ==
    SetToSeq({[python |-> p, build_type |-> b, mpi_type |-> m, cudatoolkit |-> c] :
                 p \in python_versions, b \in build_types,
                 m \in mpi_types, c \in cuda_versions})

\* utils.variant_string: the four axis values joined
variant_string(v) == <<v.python, v.build_type, v.mpi_type, v.cudatoolkit>>

AxesChoices ==
    {a \in [python_versions : {{"3.6"}, {"3.6", "3.7"}},
            build_types : {{"cpu"}},
            mpi_types : {{"openmpi"}},
            cuda_versions : {{"10.2"}}] :
        Cardinality(a.python_versions) * Cardinality(a.build_types) <= MaxVariants}

\* the dependency strings the renderer can report for recipe A and for recipe B
PoolA == {Pkg("b", ""), Pkg("x", ""), Pkg("x", ">=2")}
PoolB == {Pkg("a", ""), Pkg("x", "")}

\* a rendered recipe; channels are the channels of its feedstock's config
Recipe(name, packages, dependencies, repository, channels) ==
    [recipe |-> name, packages |-> packages, dependencies |-> dependencies,
     repository |-> repository, channels |-> channels]

\* the channels argument of the constructor
ChannelsChoices == {<<>>, <<"g">>}

EnvConfigs ==
    {[recipes |-> {Recipe("A", {Pkg("a", "")}, da, "repoA", <<"ca">>),
                   Recipe("B", {Pkg("b", "")}, db, "repoB", <<"cb">>)},
      external_dependencies |-> ext,
      channels |-> <<"e">>] :
        da \in {d \in SUBSET PoolA : Cardinality(d) <= MaxDeps},
        db \in {d \in SUBSET PoolB : Cardinality(d) <= MaxDeps},
        ext \in {{}, {Pkg("b", "")}, {Pkg("x", ""), Pkg("x", ">=2")}}}

\* the dependency strings an environment lists, over recipes and descriptors
EnvSize(env) ==
    LET a == CHOOSE r \in env.recipes : r.recipe = "A"
        b == CHOOSE r \in env.recipes : r.recipe = "B"
    IN  Cardinality(a.dependencies) + Cardinality(b.dependencies) +
        Cardinality(env.external_dependencies)

PackagesChoices == {{}, {Pkg("zz", "")}, {Pkg("a", ""), Pkg("zz", "")}}

\* the dependency strings the channel can list for a package name
RemotePool(name) ==
    IF name = "x" THEN {Pkg("b", ""), Pkg("x", ""), Pkg("y", "")}
    ELSE IF name = "y" THEN {Pkg("x", "")}
    ELSE {}

\* what the channel can answer for a package name; the query for x can also
\* find a virtual package or fail
Answers(name) ==
    {[kind |-> "ok", dependencies |-> d] :
        d \in {e \in SUBSET RemotePool(name) : Cardinality(e) <= MaxRemoteDeps}} \cup
    (IF name = "x"
     THEN {[kind |-> "virtual", dependencies |-> {}], [kind |-> "error", dependencies |-> {}]}
     ELSE {})

Put(f, k, v) == [x \in DOMAIN f \cup {k} |-> IF x = k THEN v ELSE f[x]]

Msg(text, packages, cycles) == [text |-> text, packages |-> packages, cycles |-> cycles]

\* OpenCEError(kind, msg), raised on its own
OpenCEError(kind, msg) == [kind |-> kind, msg |-> msg, cause |-> NoCause]

\* mutant: the wrapping error is raised without the message of its cause
CreateBuildTreeErrorNoMsg(exc) ==
    [kind |-> "CREATE_BUILD_TREE", msg |-> NoMsg,
     cause |-> [kind |-> exc.kind, msg |-> exc.msg]]

\* raise OpenCEError(Error.CREATE_BUILD_TREE, exc.msg) from exc
CreateBuildTreeError(exc) ==
    [kind |-> "CREATE_BUILD_TREE", msg |-> exc.msg,
     cause |-> [kind |-> exc.kind, msg |-> exc.msg]]

----------------------------------------------------------------------------
(* BuildTree._create_nodes and _create_commands *)

\* the graph _create_nodes returns for a variant: one external node per entry
\* of the external dependency lists, with the constructor's and the
\* descriptor's channels, and one buildable node per rendered recipe, whose
\* command has those channels and the channels of the feedstock's config
_create_nodes(env, variant, self_channels) ==
    AddNodes(AddNodes(EmptyGraph,
                      {DependencyNodeFrom({dep}, None, self_channels \o env.channels) :
                          dep \in env.external_dependencies}),
             {DependencyNode(r.packages,
                             BuildCommand(r.recipe, variant, r.dependencies, r.repository,
                                          self_channels \o env.channels \o r.channels)) :
                 r \in env.recipes})

----------------------------------------------------------------------------
(* _create_edges *)

\* mutant: pop() returns any element, whatever it returned for the set before
pop_unstable(pops, local_dest) == local_dest

\* local_dest.pop(): an arbitrary element of the set, the same element each
\* time the same set is built; pops holds <<set, element>> of the earlier calls
pop(pops, local_dest) ==
    IF \E e \in local_dest : <<local_dest, e>> \in pops
    THEN {e \in local_dest : <<local_dest, e>> \in pops}
    ELSE local_dest

\* mutant: the search for a node that provides the dependency is skipped
LinkDependencyAlwaysNew(o, node, dependency) ==
    LET new_node == DependencyNode({dependency}, None)
    IN  {[tree |-> add_edge(add_node(o.tree, new_node), node, new_node), pops |-> o.pops]}

\* one dependency of one node: the trees the choice of local_dest.pop() gives
LinkDependency(o, node, dependency) ==
    LET t == o.tree
        local_dest == {dest_node \in t.nodes :
                          remove_version(dependency) \in StrippedNames(dest_node.packages)}
        new_node == DependencyNode({dependency}, None)
    IN  IF local_dest # {}
        THEN {[tree |-> IF ~NodeEq(node, dest_node) THEN add_edge(t, node, dest_node) ELSE t,
               pops |-> o.pops \cup {<<local_dest, dest_node>>}] :
                 dest_node \in pop(o.pops, local_dest)}
        ELSE {[tree |-> add_edge(add_node(t, new_node), node, new_node), pops |-> o.pops]}

RECURSIVE LinkDependencies(_, _, _)
LinkDependencies(o, node, remaining) ==
    IF remaining = {} THEN {o}
    ELSE UNION {UNION {LinkDependencies(o1, node, remaining \ {d}) :
                          o1 \in LinkDependency(o, node, d)} : d \in remaining}

RECURSIVE LinkNodes(_, _)
LinkNodes(o, remaining) ==
    IF remaining = {} THEN {o}
    ELSE UNION {UNION {LinkNodes(o1, remaining \ {n}) :
                          o1 \in IF HasCommand(n)
                                 THEN LinkDependencies(o, n, n.build_command.dependencies)
                                 ELSE {o}} : n \in remaining}

\* _create_edges(tree) with the pops of earlier calls: the trees it can
\* return, over the iteration orders of its sets, each with the pops made
LinkTree(t, pops) == LinkNodes([tree |-> t, pops |-> pops], t.nodes)

\* the trees _create_edges can return
_create_edges(t) == {o.tree : o \in LinkTree(t, {})}

----------------------------------------------------------------------------
(* Linking harness: _create_edges on drawn graphs, applied once and again *)

\* the variables of the constructor, which the function harnesses leave alone
constructor_vars ==
    <<axes, packages_arg, env_config, channel, possible_variants, vidx, tree,
      variant_tree, variant_deps, deps, seen, queried, external_dependencies,
      conda_env_files, test_feedstocks, initial_nodes, start_nodes, validate_args,
      notices, error, yielded, t_graph, t_start, global_channels>>

\* recipe A can also depend on a package of its own
EdgePoolA == PoolA \cup {Pkg("a", "")}

EdgeEnvs ==
    {[recipes |-> {Recipe("A", {Pkg("a", "")}, da, "repoA", <<>>),
                   Recipe("B", {Pkg("b", "")}, db, "repoB", <<>>)},
      external_dependencies |-> ext,
      channels |-> <<>>] :
        da \in {d \in SUBSET EdgePoolA : Cardinality(d) <= MaxDeps},
        db \in {d \in SUBSET PoolB : Cardinality(d) <= MaxDeps},
        ext \in {{}, {Pkg("b", "")}, {Pkg("x", ""), Pkg("x", ">=2")},
                 {Pkg("b", ""), Pkg("x", "")}}}

EInit ==
    /\ Idle
    /\ pc = "link"
    /\ yielded = <<>>
    /\ t_graph = EmptyGraph
    /\ t_start = {}
    /\ h_in \in {_create_nodes(env, TVariant, <<>>) : env \in EdgeEnvs}
    /\ h_out = <<>>

\* variant_tree = _create_edges(variant_tree)
ELink ==
    /\ pc = "link"
    /\ \E o \in LinkTree(h_in, {}) : h_out' = <<o>>
    /\ pc' = "linked"
    /\ UNCHANGED <<constructor_vars, h_in>>

\* _create_edges applied to its own result, in the same process
ELinkAgain ==
    /\ pc = "linked"
    /\ \E o \in LinkTree(h_out[1].tree, h_out[1].pops) : h_out' = Append(h_out, o)
    /\ pc' = "relinked"
    /\ UNCHANGED <<constructor_vars, h_in>>

ENext == ELink \/ ELinkAgain

SpecEdges == EInit /\ [][ENext]_vars

----------------------------------------------------------------------------
(* Node harness: DependencyNode compared, hashed and used as a graph key *)

\* build commands, two of them equal but for their dependencies and channels
NodeCommands ==
    {None,
     BuildCommand("A", TVariant, {}, "repoA", <<>>),
     BuildCommand("A", TVariant, {Pkg("b", "")}, "repoA", <<"ca">>),
     BuildCommand("A", [TVariant EXCEPT !.python = "3.7"], {}, "repoA", <<>>),
     BuildCommand("B", TVariant, {}, "repoB", <<>>)}

NodePackages == {{Pkg("a", "")}, {Pkg("b", "")}, {Pkg("a", ""), Pkg("b", "")}}

NodeChannels == {<<>>, <<"c">>}

NodeValues ==
    {DependencyNodeFrom(p, c, ch) : p \in NodePackages, c \in NodeCommands,
                                    ch \in NodeChannels}

NInit ==
    /\ Idle
    /\ pc = "node"
    /\ yielded = <<>>
    /\ t_graph = EmptyGraph
    /\ t_start = {}
    /\ h_in \in [self : NodeValues, other : NodeValues \cup {false_start_node}]
    /\ h_out = <<>>

\* self == other, hash(self), hash(other)
NCompare ==
    /\ pc = "node"
    /\ h_out' = [eq |-> NodeEq(h_in.self, h_in.other),
                 hash |-> NodeHash(h_in.self),
                 other_hash |-> NodeHash(h_in.other)]
    /\ pc' = "compared"
    /\ UNCHANGED <<constructor_vars, h_in>>

\* both nodes added to one graph; a graph with an edge from self composed
\* with a graph with an edge to other
NInsert ==
    /\ pc = "compared"
    /\ IsDependencyNode(h_in.other)
    /\ h_out' = [eq |-> h_out.eq, hash |-> h_out.hash, other_hash |-> h_out.other_hash,
                 added |-> add_node(add_node(EmptyGraph, h_in.self), h_in.other),
                 composed |-> compose(add_edge(EmptyGraph, h_in.self, TX),
                                      add_edge(EmptyGraph, TC, h_in.other))]
    /\ pc' = "inserted"
    /\ UNCHANGED <<constructor_vars, h_in>>

\* an attribute of self is assigned after construction and self is hashed again
NMutate ==
    /\ pc = "compared"
    /\ \E changed \in {[h_in.self EXCEPT !.packages = @ \cup {Pkg("zz", "")}],
                        [h_in.self EXCEPT !.channels = Append(@, "d")],
                        [h_in.self EXCEPT !.build_command = None]} :
          h_out' = [eq |-> h_out.eq, hash |-> h_out.hash, other_hash |-> h_out.other_hash,
                    rehash |-> NodeHash(changed)]
    /\ pc' = "mutated"
    /\ UNCHANGED <<constructor_vars, h_in>>

NNext == NCompare \/ NInsert \/ NMutate

SpecNode == NInit /\ [][NNext]_vars

----------------------------------------------------------------------------
(* get_installable_packages *)

MaxGroup == 3         \* dependency strings passed to one check_and_add call
MaxGroups == 2        \* check_and_add calls of one reduction

\* the orders in which a set can be iterated: the sequences that list every
\* element of S once
RECURSIVE Orderings(_)
Orderings(S) ==
    IF S = {} THEN {<<>>}
    ELSE UNION {{<<x>> \o tail : tail \in Orderings(S \ {x})} : x \in S}

\* dep.split()[0]
split_name(dep) == dep[1]

\* len(dep.split()) > 1
has_qualifier(dep) == dep[2] # ""

\* the string that is only the name of dep
bare(dep) == Pkg(split_name(dep), "")

\* len(dep): the name, and a space and the qualifier when there is one
len(dep) == Len(dep[1]) + (IF has_qualifier(dep) THEN 1 + Len(dep[2]) ELSE 0)

\* what check_matching returns for "nothing to add"
NoDep == Pkg("", "")

\* utils.generalize_version: a plain version is loosened to its wildcard form
generalize_version(dep) ==
    IF dep[2] = "2.0" THEN Pkg(dep[1], "2.0.*") ELSE dep

\* a check_matching that never replaces a bare entry
check_matching_keep_bare(deps_set, dep_to_be_added) ==
    IF \E dep \in deps_set : split_name(dep) = split_name(dep_to_be_added)
    THEN [deps_set |-> deps_set, value |-> NoDep]
    ELSE [deps_set |-> deps_set, value |-> dep_to_be_added]

\* a check_matching that looks for the exact string and for the bare name only
check_matching_exact_only(deps_set, dep_to_be_added) ==
    IF dep_to_be_added \in deps_set
    THEN [deps_set |-> deps_set, value |-> NoDep]
    ELSE IF bare(dep_to_be_added) \in deps_set /\ has_qualifier(dep_to_be_added)
    THEN [deps_set |-> deps_set \ {bare(dep_to_be_added)}, value |-> dep_to_be_added]
    ELSE [deps_set |-> deps_set, value |-> dep_to_be_added]

\* check_matching: the set as the call leaves it, and the returned string
check_matching(deps_set, dep_to_be_added) ==
    IF dep_to_be_added \in deps_set
    THEN [deps_set |-> deps_set, value |-> NoDep]
    ELSE IF bare(dep_to_be_added) \in deps_set /\ has_qualifier(dep_to_be_added)
    THEN [deps_set |-> deps_set \ {bare(dep_to_be_added)}, value |-> dep_to_be_added]
    ELSE IF \E dep \in deps_set : split_name(dep) = split_name(dep_to_be_added)
    THEN [deps_set |-> deps_set, value |-> NoDep]
    ELSE [deps_set |-> deps_set, value |-> dep_to_be_added]

\* one pass of a loop body: check_matching, then add what it returned
AddMatching(deps_set, dep) ==
    LET r == check_matching(deps_set, dep)
    IN  IF r.value # NoDep THEN r.deps_set \cup {r.value} ELSE r.deps_set

RECURSIVE UniqueDeps(_, _)
UniqueDeps(unique, dependencies) ==
    IF dependencies = <<>> THEN unique
    ELSE UniqueDeps(AddMatching(unique, generalize_version(Head(dependencies))),
                    Tail(dependencies))

\* _get_unique_deps_names, for the dependencies in the order they are listed
_get_unique_deps_names(dependencies) == UniqueDeps({}, dependencies)

RECURSIVE AddAll(_, _)
AddAll(parent_set, dependencies) ==
    IF dependencies = <<>> THEN parent_set
    ELSE AddAll(AddMatching(parent_set, Head(dependencies)), Tail(dependencies))

\* the values parent_set takes in the loop of check_and_add, one after each
\* pass
RECURSIVE AddAllSteps(_, _)
AddAllSteps(parent_set, dependencies) ==
    IF dependencies = <<>> THEN {}
    ELSE LET next == AddMatching(parent_set, Head(dependencies))
         IN  {next} \cup AddAllSteps(next, Tail(dependencies))

\* check_and_add: the sets it can return, one for each order in which the
\* set of unique dependencies is iterated, each with the values the set took
\* on the way
check_and_add(dependencies, parent_set) ==
    {[retval |-> AddAll(parent_set, order), steps |-> AddAllSteps(parent_set, order)] :
        order \in Orderings(_get_unique_deps_names(dependencies))}

\* sorted(retval, key=len): the lists it can return
sorted_by_len(retval) ==
    {s \in Orderings(retval) :
        \A i \in 1..Len(s), j \in 1..Len(s) : i < j => len(s[i]) <= len(s[j])}

(* the reduction on its own: run dependencies, output files and external
   dependencies reach check_and_add one collection at a time *)

DepStrings ==
    {Pkg("pkgA", ""), Pkg("pkgA", ">=2.0"), Pkg("pkgA", "2.0"),
     Pkg("pkgB", ""), Pkg("pkgB", "1.*")}

DepGroups == {g \in SUBSET DepStrings : g # {} /\ Cardinality(g) <= MaxGroup}

\* the sets of at most n collections
RECURSIVE GroupSets(_)
GroupSets(n) ==
    IF n = 0 THEN {{}}
    ELSE LET smaller == GroupSets(n - 1)
         IN  smaller \cup {gs \cup {g} : gs \in smaller, g \in DepGroups}

IInit ==
    /\ Idle
    /\ pc = "install"
    /\ yielded = <<>>
    /\ t_graph = EmptyGraph
    /\ t_start = {}
    /\ h_in \in GroupSets(MaxGroups) \ {{}}
    /\ h_out = [retval |-> {}, steps |-> {}, candidates |-> {}, result |-> <<>>]

\* retval = check_and_add(..., retval) for one of the collections
ICheckAndAdd ==
    /\ pc = "install"
    /\ \E group \in h_in :
         \E dependencies \in Orderings(group) :
            \E added \in check_and_add(dependencies, h_out.retval) :
               /\ h_out' = [retval |-> added.retval,
                            steps |-> added.steps,
                            candidates |-> h_out.candidates \cup group,
                            result |-> <<>>]
               /\ h_in' = h_in \ {group}
    /\ UNCHANGED <<constructor_vars, pc>>

\* return sorted(retval, key=len)
IReturn ==
    /\ pc = "install"
    /\ h_in = {}
    /\ \E result \in sorted_by_len(h_out.retval) :
         h_out' = [h_out EXCEPT !.result = result]
    /\ pc' = "installed"
    /\ UNCHANGED <<constructor_vars, h_in>>

INext == ICheckAndAdd \/ IReturn

SpecInstall == IInit /\ [][INext]_vars

----------------------------------------------------------------------------
(* get_installable_packages on a graph: the traversal, the run dependencies of
   commands, independent mode *)

MaxRunDeps == 2       \* run dependencies of one build command
MaxExternal == 2      \* strings of the external dependency list

\* is_independent(node, tree)
is_independent(node, t) == {x \in descendants(t, node) : HasCommand(x)} = {}

\* the successors of node among which next(...) finds the node of run_dep
RunDepNodes(t, node, run_dep) ==
    {x \in successors(t, node) : remove_version(run_dep) \in StrippedNames(x.packages)}

\* get_independent_runtime_deps(tree, node), with the run dependencies of the
\* node's command: the sets it can return, one for each successor next(...)
\* can find first; raised when next(...) finds none (StopIteration)
get_independent_runtime_deps(t, node, run_dependencies) ==
    LET run_deps == {x \in run_dependencies :
                        remove_version(x) \notin StrippedNames(node.packages)}
        picks == {f \in [run_deps -> t.nodes] :
                     \A d \in run_deps : f[d] \in RunDepNodes(t, node, d)}
    IN  IF \E d \in run_deps : RunDepNodes(t, node, d) = {}
        THEN {[raised |-> TRUE, deps |-> {}]}
        ELSE {[raised |-> FALSE,
               deps |-> {d \in run_deps : is_independent(f[d], t)}] : f \in picks}

\* conda_utils.output_file_to_string: name, version and build string of the
\* package file of an output
output_file_to_string(package) == Pkg(remove_version(package), "1.0 py36_0")

\* the retval of one check_and_add call for each way to run it
Added(dependencies, retval) ==
    {r.retval : r \in UNION {check_and_add(order, retval) : order \in Orderings(dependencies)}}

\* the body of the loop over the traversed nodes, for one node: the values
\* of retval it can leave, or raised
InstallNode(in, node, retval) ==
    IF ~in.runtime_package[node.build_command.recipe]
    THEN {[raised |-> FALSE, retval |-> retval]}
    ELSE IF in.independent
    THEN UNION {IF o.raised THEN {[raised |-> TRUE, retval |-> retval]}
                ELSE {[raised |-> FALSE, retval |-> r] : r \in Added(o.deps, retval)} :
                   o \in get_independent_runtime_deps(in.tree, node,
                             in.run_dependencies[node.build_command.recipe])}
    ELSE UNION {{[raised |-> FALSE, retval |-> r2] :
                    r2 \in Added({output_file_to_string(p) : p \in node.packages}, r1)} :
                   r1 \in Added(in.run_dependencies[node.build_command.recipe], retval)}

RECURSIVE InstallNodes(_, _, _)
\* the loop over the traversed nodes
InstallNodes(in, nodes, retval) ==
    IF nodes = <<>> THEN {[raised |-> FALSE, retval |-> retval]}
    ELSE UNION {IF o.raised THEN {o} ELSE InstallNodes(in, Tail(nodes), o.retval) :
                   o \in InstallNode(in, Head(nodes), retval)}

RECURSIVE InstallExternal(_, _, _)
\* the loop over external_deps
InstallExternal(in, external_deps, retval) ==
    IF external_deps = <<>> THEN {retval}
    ELSE LET dep == Head(external_deps)
         IN  IF ~in.independent \/ is_independent(DependencyNode({dep}, None), in.tree)
             THEN UNION {InstallExternal(in, Tail(external_deps), r) :
                            r \in Added({dep}, retval)}
             ELSE InstallExternal(in, Tail(external_deps), retval)

\* get_installable_packages(build_commands, external_deps, starting_nodes,
\* independent): the lists it can return, or raised
\* each with the graph as the call leaves it
get_installable_packages(in) ==
    UNION {LET after == [in EXCEPT !.tree = t.build_tree]
           IN  UNION {IF o.raised
                      THEN {[raised |-> TRUE, result |-> <<>>, tree |-> after.tree]}
                      ELSE UNION {{[raised |-> FALSE, result |-> s, tree |-> after.tree] :
                                      s \in sorted_by_len(r)} :
                                     r \in InstallExternal(after, after.external_deps,
                                                           o.retval)} :
                         o \in InstallNodes(after, t.yielded, {})} :
              t \in TraverseCall(in.tree, in.starting_nodes)}

(* the function on drawn graphs: two buildable nodes and two external nodes,
   edges as _create_edges and _create_remote_deps leave them *)

JVariant == [python |-> "3.6", build_type |-> "cpu", mpi_type |-> "openmpi",
             cudatoolkit |-> "10.2"]

JA == DependencyNode({Pkg("a", "")}, BuildCommand("A", JVariant, {}, "repoA", <<>>))
JB == DependencyNode({Pkg("b", "")}, BuildCommand("B", JVariant, {}, "repoB", <<>>))
JX == DependencyNode({Pkg("x", "")}, None)
JY == DependencyNode({Pkg("y", "")}, None)

JNodes == {JA, JB, JX, JY}

\* a node's dependencies among the other nodes; an external node gets its
\* edges from the channel's answer, which may name a local package
JEdgeCandidates ==
    {<<JA, JB>>, <<JA, JX>>, <<JA, JY>>, <<JB, JX>>, <<JB, JY>>, <<JX, JY>>, <<JX, JB>>}

JGraphs ==
    {[nodes |-> JNodes, edges |-> es] :
        es \in {e \in SUBSET JEdgeCandidates :
                   /\ Cardinality(e) <= MaxEdges
                   /\ ~({<<JB, JX>>, <<JX, JB>>} \subseteq e)}}

\* the run dependencies a command can have in graph g: strings naming packages
\* of the node's successors
JRunDeps(g, node) ==
    {d \in SUBSET UNION {x.packages : x \in successors(g, node)} :
        Cardinality(d) <= MaxRunDeps}

JExternal ==
    {e \in {<<>>, <<Pkg("x", "")>>, <<Pkg("y", "")>>, <<Pkg("x", ""), Pkg("y", "")>>} :
        Len(e) <= MaxExternal}

JInit ==
    /\ Idle
    /\ pc = "packages"
    /\ yielded = <<>>
    /\ t_graph = EmptyGraph
    /\ t_start = {}
    /\ \E g \in JGraphs, rt \in BOOLEAN, ext \in JExternal, st \in {{}, {JA}},
          ind \in BOOLEAN :
          \E ra \in JRunDeps(g, JA), rb \in JRunDeps(g, JB) :
             h_in = [tree |-> g,
                     run_dependencies |-> [A |-> ra, B |-> rb],
                     runtime_package |-> [A |-> TRUE, B |-> rt],
                     external_deps |-> ext,
                     starting_nodes |-> st,
                     independent |-> ind]
    /\ h_out = <<>>

\* get_installable_packages(tree, external_deps, starting_nodes, independent)
JInstall ==
    /\ pc = "packages"
    /\ \E o \in get_installable_packages(h_in) : h_out' = o
    /\ pc' = "packaged"
    /\ UNCHANGED <<constructor_vars, h_in>>

\* the generator of traverse_build_commands(tree, starting_nodes) asked for
\* some of its items: nothing runs before the first request
JTraverse ==
    /\ pc = "packages"
    /\ \E r \in TraverseCall(h_in.tree, h_in.starting_nodes) :
       \E requests \in 0..(Len(r.yielded) + 1) :
          h_out' = [raised |-> FALSE,
                    result |-> SubSeq(r.yielded, 1,
                                      IF requests <= Len(r.yielded) THEN requests
                                      ELSE Len(r.yielded)),
                    tree |-> IF requests = 0 THEN h_in.tree ELSE r.build_tree]
    /\ pc' = "requested"
    /\ UNCHANGED <<constructor_vars, h_in>>

JNext == JInstall \/ JTraverse

SpecPackages == JInit /\ [][JNext]_vars

----------------------------------------------------------------------------
(* BuildTree._create_nodes: the tasks of
   utils.run_in_parallel(self._create_commands_helper, create_commands_args) *)

MaxFeedstocks == 3    \* feedstock entries of the environment files of a variant

\* an entry of the packages list of an environment file
Feedstock(feedstock, recipes) == [feedstock |-> feedstock, recipes |-> recipes]

\* _make_hash(feedstock) = hash(str(feedstock)): the text of the entry
_make_hash(feedstock) == <<feedstock.feedstock, feedstock.recipes>>

\* the repo_dir _get_repo computes for an entry: named after the feedstock
repo_dir(feedstock) == <<feedstock.feedstock, "-feedstock">>

RECURSIVE create_commands_args(_, _)
\* the arguments scheduled by the loop over the feedstocks
create_commands_args(feedstocks, feedstocks_seen) ==
    IF feedstocks = <<>> THEN <<>>
    ELSE IF _make_hash(Head(feedstocks)) \in feedstocks_seen
    THEN create_commands_args(Tail(feedstocks), feedstocks_seen)
    ELSE <<Head(feedstocks)>> \o
         create_commands_args(Tail(feedstocks),
                              feedstocks_seen \cup {_make_hash(Head(feedstocks))})

\* the package a recipe renders to
KPackage == [A |-> Pkg("a", ""), B |-> Pkg("b", ""), C |-> Pkg("c", "")]

\* _create_commands in the directory of the feedstock: a graph of its own
\* with one node for each selected recipe
_create_commands(feedstock) ==
    AddNodes(EmptyGraph,
             {DependencyNode({KPackage[r]},
                             BuildCommand(r, JVariant, {}, repo_dir(feedstock), <<>>)) :
                 r \in feedstock.recipes})

RECURSIVE ComposeAll(_, _)
\* for command in commands: retval = networkx.compose(retval, command)
ComposeAll(retval, commands) ==
    IF commands = <<>> THEN retval
    ELSE ComposeAll(compose(retval, Head(commands)), Tail(commands))

KFeedstocks ==
    {Feedstock("f1", {"A"}), Feedstock("f1", {"B"}), Feedstock("f2", {"C"})}

KRepoDirs == {repo_dir(f) : f \in KFeedstocks}

\* who wrote a directory: nobody (it does not exist), somebody before the
\* batch, or the task of that number
Absent == -1
Before == 0

KInit ==
    /\ Idle
    /\ pc = "commands"
    /\ yielded = <<>>
    /\ t_graph = EmptyGraph
    /\ t_start = {}
    /\ \E n \in 1..MaxFeedstocks :
       \E feedstocks \in [1..n -> KFeedstocks], existing \in SUBSET KRepoDirs :
          /\ h_in = [feedstocks |-> feedstocks, existing |-> existing]
          /\ LET args == create_commands_args(feedstocks, {})
             IN  h_out = [args |-> args,
                          dirs |-> [d \in KRepoDirs |->
                                       IF d \in existing THEN Before ELSE Absent],
                          task |-> [i \in 1..Len(args) |->
                                       [pc |-> "get_repo", saw |-> {}, graph |-> EmptyGraph]],
                          retval |-> EmptyGraph]

\* _get_repo of a task: if not os.path.exists(repo_dir)
KGetRepo ==
    /\ pc = "commands"
    /\ \E i \in DOMAIN h_out.task :
          /\ h_out.task[i].pc = "get_repo"
          /\ LET d == repo_dir(h_out.args[i])
             IN  h_out' = [h_out EXCEPT
                              !.task[i].pc = IF h_out.dirs[d] = Absent THEN "clone"
                                             ELSE "chdir",
                              !.task[i].saw = @ \cup ({h_out.dirs[d]} \ {Absent})]
    /\ UNCHANGED <<constructor_vars, pc, h_in>>

\* _clone_repo of a task: git clone creates the directory, and fails when the
\* directory is there by now
KClone ==
    /\ pc = "commands"
    /\ \E i \in DOMAIN h_out.task :
          /\ h_out.task[i].pc = "clone"
          /\ LET d == repo_dir(h_out.args[i])
             IN  IF h_out.dirs[d] = Absent
                 THEN h_out' = [h_out EXCEPT !.dirs[d] = i, !.task[i].pc = "chdir"]
                 ELSE h_out' = [h_out EXCEPT !.task[i].pc = "raised",
                                             !.task[i].saw = @ \cup {h_out.dirs[d]}]
    /\ UNCHANGED <<constructor_vars, pc, h_in>>

\* _create_commands of a task: the recipes are rendered from the directory
KCreateCommands ==
    /\ pc = "commands"
    /\ \E i \in DOMAIN h_out.task :
          /\ h_out.task[i].pc = "chdir"
          /\ h_out' = [h_out EXCEPT
                          !.task[i].pc = "returned",
                          !.task[i].saw = @ \cup {h_out.dirs[repo_dir(h_out.args[i])]},
                          !.task[i].graph = _create_commands(h_out.args[i])]
    /\ UNCHANGED <<constructor_vars, pc, h_in>>

\* run_in_parallel returns when every task has ended, and raises when one
\* has raised; the graphs are composed in the order of the arguments
KCompose ==
    /\ pc = "commands"
    /\ \A i \in DOMAIN h_out.task : h_out.task[i].pc \in {"returned", "raised"}
    /\ IF \E i \in DOMAIN h_out.task : h_out.task[i].pc = "raised"
       THEN pc' = "batch_failed" /\ UNCHANGED h_out
       ELSE /\ pc' = "created"
            /\ h_out' = [h_out EXCEPT
                            !.retval = ComposeAll(EmptyGraph,
                                                  [i \in DOMAIN h_out.task |->
                                                      h_out.task[i].graph])]
    /\ UNCHANGED <<constructor_vars, h_in>>

KNext == KGetRepo \/ KClone \/ KCreateCommands \/ KCompose

SpecCommands == KInit /\ [][KNext]_vars

----------------------------------------------------------------------------
(* BuildTree._create_remote_deps *)

RECURSIVE LinkRemoteNoPush(_, _, _, _)
\* mutant: a node created for a dependency is not put in the work set
LinkRemoteNoPush(g, work, node, remaining) ==
    IF remaining = {} THEN {[graph |-> g, deps |-> work]}
    ELSE UNION {
        LET local_dest == {dest_node \in g.nodes :
                              remove_version(dep) \in StrippedNames(dest_node.packages)}
            new_dep == DependencyNode({dep}, None)
        IN  IF local_dest # {}
            THEN UNION {LinkRemoteNoPush(add_edge(g, node, dest_node), work, node,
                                         remaining \ {dep}) : dest_node \in local_dest}
            ELSE LinkRemoteNoPush(add_edge(g, node, new_dep), work, node,
                                  remaining \ {dep})
        : dep \in remaining}

RECURSIVE LinkRemoteAlwaysNew(_, _, _, _)
\* a loop that makes a node for every dependency, whatever the graph holds
LinkRemoteAlwaysNew(g, work, node, remaining) ==
    IF remaining = {} THEN {[graph |-> g, deps |-> work]}
    ELSE UNION {
        LET new_dep == DependencyNode({dep}, None)
        IN  LinkRemoteAlwaysNew(add_edge(g, node, new_dep), work \cup {new_dep}, node,
                                remaining \ {dep})
        : dep \in remaining}

RECURSIVE LinkRemote(_, _, _, _)
\* the loop over package_info['dependencies'] for one queried node
LinkRemote(g, work, node, remaining) ==
    IF remaining = {} THEN {[graph |-> g, deps |-> work]}
    ELSE UNION {
        LET local_dest == {dest_node \in g.nodes :
                              remove_version(dep) \in StrippedNames(dest_node.packages)}
            new_dep == DependencyNode({dep}, None)
        IN  IF local_dest # {}
            THEN UNION {LinkRemote(add_edge(g, node, dest_node), work, node,
                                   remaining \ {dep}) : dest_node \in local_dest}
            ELSE LinkRemote(add_edge(g, node, new_dep), work \cup {new_dep}, node,
                            remaining \ {dep})
        : dep \in remaining}

\* networkx.ancestors(dep_graph, node): the nodes with a path to node
ancestors(g, node) == {n \in g.nodes : n # node /\ node \in ReachFrom(g, {n})}

RECURSIVE ConcatChannels(_)
\* ancestor_channels: the channels of the commands, over the iteration orders
\* of the set of commands
ConcatChannels(cmds) ==
    IF cmds = {} THEN {<<>>}
    ELSE UNION {{cmd.channels \o tail : tail \in ConcatChannels(cmds \ {cmd})} :
                   cmd \in cmds}

\* the possible values of ancestor_channels for a popped node
AncestorChannels(g, node) ==
    ConcatChannels({x.build_command : x \in {a \in ancestors(g, node) : HasCommand(a)}})

\* mutant: the constructor's channels first
query_channels_global_first(node_channels, ancestor_channels, self_channels) ==
    self_channels \o ancestor_channels \o node_channels

\* the channels passed to get_latest_package_info, ordered by priority
query_channels(node_channels, ancestor_channels, self_channels) ==
    node_channels \o ancestor_channels \o self_channels

\* mutant: the name is not recorded
seen_add_dropped(sn, package_name) == sn

\* seen.add(package_name)
seen_add(sn, package_name) == sn \cup {package_name}

\* one call of get_latest_package_info
Query(node, package, channels) ==
    [node |-> node, package |-> package, channels |-> channels]

RECURSIVE ResolvePackages(_, _, _, _, _, _, _, _)
\* the loop over node.packages for one popped node, under the channel answers
\* ans, with the channel list chans passed to every query
ResolvePackages(g, work, sn, q, node, remaining, ans, chans) ==
    IF remaining = {}
    THEN {[graph |-> g, deps |-> work, seen |-> sn, queried |-> q, failed |-> FALSE]}
    ELSE UNION {
        LET package_name == remove_version(package)
            rest == remaining \ {package}
            package_info == ans[package_name]
            q1 == q \cup {Query(node, package, chans)}
        IN  IF package_name \in sn
            THEN ResolvePackages(g, work, sn, q, node, rest, ans, chans)
            ELSE IF package_info.kind = "error"
            THEN {[graph |-> g, deps |-> work, seen |-> seen_add(sn, package_name),
                   queried |-> q1, failed |-> TRUE]}
            ELSE IF package_info.kind = "virtual"
            THEN ResolvePackages(g, work, seen_add(sn, package_name), q1,
                                 node, rest, ans, chans)
            ELSE UNION {ResolvePackages(o.graph, o.deps, seen_add(sn, package_name),
                                        q1, node, rest, ans, chans) :
                           o \in LinkRemote(add_node(g, DependencyNode({package}, None)),
                                            work, node, package_info.dependencies)}
        : package \in remaining}

\* the channel answers after the names in `names` have been asked: what was
\* answered before stays, a name asked for the first time gets any answer
ChannelAfter(ch, names) ==
    LET asked == {n \in names : ch[n] = Unknown}
        all == UNION {Answers(n) : n \in asked}
    IN  {[n \in QueryNames |-> IF n \in asked THEN f[n] ELSE ch[n]] :
            f \in {h \in [asked -> all] : \A n \in asked : h[n] \in Answers(n)}}

----------------------------------------------------------------------------
(* BuildTree._detect_cycle *)

RECURSIVE PathsFrom(_, _)
\* the simple paths that extend path p
PathsFrom(g, p) ==
    {p} \cup UNION {PathsFrom(g, Append(p, m)) :
                       m \in successors(g, p[Len(p)]) \ Range(p)}

CycleEdges(p) ==
    {<<p[i], p[i + 1]>> : i \in 1..(Len(p) - 1)} \cup {<<p[Len(p)], p[1]>>}

\* networkx.simple_cycles: every elementary cycle, each as its set of edges
simple_cycles(g) ==
    {CycleEdges(p) :
        p \in {q \in UNION {PathsFrom(g, <<n>>) : n \in g.nodes} :
                  <<q[Len(q)], q[1]>> \in g.edges}}

\* mutant: all() for any(): a cycle is fatal only when every member is buildable
_detect_cycle_all(g) == {cycle \in simple_cycles(g) : \A e \in cycle : HasCommand(e[1])}

\* the cycles _detect_cycle prints: those with any buildable member
_detect_cycle(g) == {cycle \in simple_cycles(g) : \E e \in cycle : HasCommand(e[1])}

----------------------------------------------------------------------------
(* BuildTree.remove_external_deps_from_dag *)

\* mutant: add_edge(successor, predecessor), the arguments swapped
BypassNodeSwapped(g, node) ==
    LET preds == predecessors(g, node)
        succs == successors(g, node)
    IN  IF preds = {} THEN {remove_node(g, node)}
        ELSE {remove_node(AddEdges(g, {<<s, first>> : s \in succs}), node) :
                 first \in preds}

\* one external node: predecessors and successors are iterators, so the
\* successors are consumed by the first predecessor the loop visits
BypassNode(g, node) ==
    LET preds == predecessors(g, node)
        succs == successors(g, node)
    IN  IF preds = {} THEN {remove_node(g, node)}
        ELSE {remove_node(AddEdges(g, {<<first, s>> : s \in succs}), node) :
                 first \in preds}

RECURSIVE BypassNodes(_, _)
BypassNodes(g, remaining) ==
    IF remaining = {} THEN {g}
    ELSE UNION {UNION {BypassNodes(g1, remaining \ {n}) : g1 \in BypassNode(g, n)} :
                   n \in remaining}

\* a pass that leaves the external nodes without successors in place
remove_external_deps_with_successors(g) ==
    BypassNodes(g, {n \in g.nodes : ~HasCommand(n) /\ successors(g, n) # {}})

\* the graphs remove_external_deps_from_dag can leave
remove_external_deps_from_dag(g) == BypassNodes(g, {n \in g.nodes : ~HasCommand(n)})

----------------------------------------------------------------------------
(* BuildTree.__init__ as a state machine *)

Init ==
    /\ pc = "create_nodes"
    /\ axes \in AxesChoices
    /\ packages_arg \in PackagesChoices
    /\ env_config \in EnvConfigs
    /\ global_channels \in ChannelsChoices
    /\ Cardinality(axes.python_versions) * (EnvSize(env_config) + Len(global_channels))
           <= MaxLoad
    /\ channel = [n \in QueryNames |-> Unknown]
    /\ possible_variants = make_variants(axes.python_versions, axes.build_types,
                                         axes.mpi_types, axes.cuda_versions)
    /\ vidx = 1
    /\ tree = EmptyGraph
    /\ variant_tree = EmptyGraph
    /\ variant_deps = {}
    /\ deps = {}
    /\ seen = {}
    /\ queried = {}
    /\ external_dependencies = <<>>
    /\ conda_env_files = <<>>
    /\ test_feedstocks = <<>>
    /\ initial_nodes = {}
    /\ start_nodes = {}
    /\ validate_args = <<>>
    /\ notices = {}
    /\ error = NoError
    /\ yielded = <<>>
    /\ t_graph = EmptyGraph
    /\ t_start = {}
    /\ h_in = <<>>
    /\ h_out = <<>>

variant == possible_variants[vidx]

\* an exception leaves the constructor: no object is returned
Raise(exc) ==
    /\ pc' = "failed"
    /\ error' = exc

\* _create_nodes and _create_edges of the variant; a failing clone, patch or
\* render raises an OpenCEError, re-raised as CREATE_BUILD_TREE
CreateNodes ==
    /\ pc = "create_nodes"
    /\ \/ /\ \E t \in _create_edges(_create_nodes(env_config, variant, global_channels)) :
                variant_tree' = t
          /\ variant_deps' = env_config.external_dependencies
          /\ deps' = {dep \in variant_tree'.nodes : ~HasCommand(dep)}
          /\ seen' = {}
          /\ queried' = {}
          /\ pc' = "remote"
          /\ UNCHANGED error
       \/ /\ Raise(CreateBuildTreeError(
                       OpenCEError("PATCH_APPLICATION", Msg("patch failed", {}, {}))))
          /\ UNCHANGED <<variant_tree, variant_deps, deps, seen, queried>>
    /\ UNCHANGED <<axes, packages_arg, env_config, channel, possible_variants, vidx, tree,
                   external_dependencies, conda_env_files, test_feedstocks, initial_nodes,
                   start_nodes, validate_args, notices, yielded, t_graph, t_start, global_channels, h_in, h_out>>

\* one turn of the while loop of _create_remote_deps
RemoteStep ==
    /\ pc = "remote"
    /\ deps # {}
    /\ \E node \in deps :
       \E ans \in ChannelAfter(channel, StrippedNames(node.packages) \ seen) :
       \E ancestor_channels \in AncestorChannels(variant_tree, node) :
       \E o \in ResolvePackages(variant_tree, deps \ {node}, seen, queried, node,
                                node.packages, ans,
                                query_channels(node.channels, ancestor_channels,
                                               global_channels)) :
          /\ channel' = ans
          /\ variant_tree' = o.graph
          /\ deps' = o.deps
          /\ seen' = o.seen
          /\ queried' = o.queried
          /\ IF o.failed
             THEN Raise(CreateBuildTreeError(
                            OpenCEError("REMOTE_PACKAGE_DEPENDENCIES",
                                        Msg("query failed",
                                            UNION {d.packages : d \in o.deps}, {}))))
             ELSE UNCHANGED <<pc, error>>
    /\ UNCHANGED <<axes, packages_arg, env_config, possible_variants, vidx, tree,
                   variant_deps, external_dependencies, conda_env_files, test_feedstocks,
                   initial_nodes, start_nodes, validate_args, notices, yielded,
                   t_graph, t_start, global_channels, h_in, h_out>>

\* _create_remote_deps returns; the variant is composed into self._tree and
\* its external dependencies are recorded
Compose ==
    /\ pc = "remote"
    /\ deps = {}
    /\ tree' = compose(tree, variant_tree)
    /\ external_dependencies' =
           Put(external_dependencies, variant_string(variant), variant_deps)
    /\ pc' = "detect_cycle"
    /\ UNCHANGED <<axes, packages_arg, env_config, channel, possible_variants, vidx,
                   variant_tree, variant_deps, deps, seen, queried, conda_env_files,
                   test_feedstocks, initial_nodes, start_nodes, validate_args, notices,
                   error, yielded, t_graph, t_start, global_channels, h_in, h_out>>

\* self._detect_cycle()
DetectCycle ==
    /\ pc = "detect_cycle"
    /\ LET cycle_print == _detect_cycle(tree)
       IN  IF cycle_print # {}
           THEN Raise(OpenCEError("BUILD_TREE_CYCLE", Msg("cycle", {}, cycle_print)))
           ELSE pc' = "start_nodes" /\ UNCHANGED error
    /\ UNCHANGED <<axes, packages_arg, env_config, channel, possible_variants, vidx, tree,
                   variant_tree, variant_deps, deps, seen, queried,
                   external_dependencies, conda_env_files, test_feedstocks, initial_nodes,
                   start_nodes, validate_args, notices, yielded, t_graph, t_start, global_channels, h_in, h_out>>

\* the start nodes of the variant: in-degree zero, or the nodes the packages
\* argument names
variant_start_nodes(t, packages) ==
    IF packages # {}
    THEN {n \in TraversedSet(t, {}) : n.packages \cap packages # {}}
    ELSE {n \in t.nodes : in_degree(t, n) = 0}

\* mutant: the test of the notice is inverted (`if {...}` for `if not {...}`)
NoRecipesInverted(t, packages) ==
    {package \in packages : {n \in TraversedSet(t, {}) : package \in n.packages} # {}}

\* the packages the notice "No recipes were found" is logged for
NoRecipes(t, packages) ==
    {package \in packages : {n \in TraversedSet(t, {}) : package \in n.packages} = {}}

\* the rest of the loop body: start nodes, notices, validate arguments, the
\* conda environment file and the test feedstocks of the variant
FinishVariant ==
    /\ pc = "start_nodes"
    /\ start_nodes' = variant_start_nodes(variant_tree, packages_arg)
    /\ notices' = notices \cup
           {<<package, variant_string(variant)>> :
               package \in NoRecipes(variant_tree, packages_arg)}
    /\ initial_nodes' = initial_nodes \cup start_nodes'
    /\ validate_args' = Append(validate_args,
                               [tree |-> variant_tree, external_deps |-> variant_deps,
                                start_nodes |-> start_nodes'])
    /\ conda_env_files' =
           Put(conda_env_files, variant_string(variant),
               [build_commands |-> variant_tree, external_deps |-> variant_deps,
                starting_nodes |-> start_nodes'])
    /\ test_feedstocks' =
           Put(test_feedstocks, variant_string(variant),
               {n.build_command.repository :
                   n \in TraversedSet(variant_tree, start_nodes')})
    /\ IF vidx < Len(possible_variants)
       THEN vidx' = vidx + 1 /\ pc' = "create_nodes"
       ELSE vidx' = vidx /\ pc' = "validate"
    /\ UNCHANGED <<axes, packages_arg, env_config, channel, possible_variants, tree,
                   variant_tree, variant_deps, deps, seen, queried,
                   external_dependencies, error, yielded, t_graph, t_start, global_channels, h_in, h_out>>

\* utils.run_in_parallel(validate_config.validate_build_tree, validate_args):
\* every variant's graph, external dependencies and start nodes are validated;
\* a failing validation raises
Validate ==
    /\ pc = "validate"
    /\ \/ pc' = "strip" /\ UNCHANGED error
       \/ Raise(OpenCEError("VALIDATE_BUILD_TREE", Msg("validation failed", {}, {})))
    /\ UNCHANGED <<axes, packages_arg, env_config, channel, possible_variants, vidx, tree,
                   variant_tree, variant_deps, deps, seen, queried,
                   external_dependencies, conda_env_files, test_feedstocks, initial_nodes,
                   start_nodes, validate_args, notices, yielded, t_graph, t_start, global_channels, h_in, h_out>>

\* self.remove_external_deps_from_dag(), after which the constructor returns
Strip ==
    /\ pc = "strip"
    /\ \E g \in remove_external_deps_from_dag(tree) : tree' = g
    /\ pc' = "done"
    /\ UNCHANGED <<axes, packages_arg, env_config, channel, possible_variants, vidx,
                   variant_tree, variant_deps, deps, seen, queried,
                   external_dependencies, conda_env_files, test_feedstocks, initial_nodes,
                   start_nodes, validate_args, notices, error, yielded, t_graph, t_start, global_channels, h_in, h_out>>

\* BuildTree.__iter__ / BuildNodes consumed to the end
Iterate ==
    /\ pc = "done"
    /\ \E r \in TraverseCall(tree, initial_nodes) :
          /\ yielded' = r.yielded
          /\ tree' = r.build_tree
    /\ pc' = "iterated"
    /\ UNCHANGED <<axes, packages_arg, env_config, channel, possible_variants, vidx,
                   variant_tree, variant_deps, deps, seen, queried,
                   external_dependencies, conda_env_files, test_feedstocks, initial_nodes,
                   start_nodes, validate_args, notices, error, t_graph, t_start, global_channels, h_in, h_out>>

Next ==
    \/ CreateNodes
    \/ RemoteStep
    \/ Compose
    \/ DetectCycle
    \/ FinishVariant
    \/ Validate
    \/ Strip
    \/ Iterate

Spec == Init /\ [][Next]_vars

\* every query returns, so a turn of the while loop of _create_remote_deps
\* that can be taken is taken
SpecRemote == Spec /\ WF_vars(RemoteStep)

----------------------------------------------------------------------------
(* Properties of traverse_build_commands (SpecTraverse) *)

NoBuildableOnCycle(g) == \A n \in g.nodes : HasCommand(n) => ~Reaches(g, n, n)

\* C3: in a graph where no buildable node lies on a cycle, whatever the start
\* nodes, a yielded node B that a yielded node A reaches by a path of
\* dependency edges (through external nodes too) is yielded before A
C3_DependenciesFirst ==
    (pc = "traversed" /\ NoBuildableOnCycle(t_graph)) =>
        \A i, j \in 1..Len(yielded) :
            (yielded[i] # yielded[j] /\ Reaches(t_graph, yielded[i], yielded[j])) => j < i

\* a traversal in which A reaches B only through the external node, which
\* also lies on a cycle of its own
C3_Witness ==
    /\ pc = "traversed"
    /\ NoBuildableOnCycle(t_graph)
    /\ <<TX, TX>> \in t_graph.edges
    /\ \E i, j \in 1..Len(yielded) :
          /\ <<yielded[i], TX>> \in t_graph.edges
          /\ <<TX, yielded[j]>> \in t_graph.edges
          /\ <<yielded[i], yielded[j]>> \notin t_graph.edges
          /\ j < i

\* C4: with a non-empty start set the traversal yields exactly the buildable
\* nodes in the start set or reachable from it, each once, and neither an
\* external node nor the virtual root
C4_ExactlyReachableOnce ==
    (pc = "traversed" /\ t_start # {}) =>
        /\ Range(yielded) = {n \in ReachFrom(t_graph, t_start) : HasCommand(n)}
        /\ Len(yielded) = Cardinality(Range(yielded))
        /\ \A i \in 1..Len(yielded) :
              yielded[i].build_command # None /\ yielded[i] # false_start_node

\* two start nodes share a buildable descendant and reach the external node
C4_Witness ==
    /\ pc = "traversed"
    /\ t_start = {TA, TB}
    /\ {<<TA, TC>>, <<TB, TC>>, <<TA, TX>>} \subseteq t_graph.edges
    /\ Len(yielded) = 3

----------------------------------------------------------------------------
(* Properties of the constructor (Spec) *)

Buildable(g) == {n \in g.nodes : HasCommand(n)}

\* the nodes of a set of edges
NodesOf(es) == {e[1] : e \in es} \cup {e[2] : e \in es}

\* es is one elementary cycle: every node of it has one edge in and one edge
\* out, and its edges hang together
IsCycle(es) ==
    /\ es # {}
    /\ \A n \in NodesOf(es) :
          /\ Cardinality({e \in es : e[1] = n}) = 1
          /\ Cardinality({e \in es : e[2] = n}) = 1
    /\ LET n0 == CHOOSE n \in NodesOf(es) : TRUE
       IN  ReachFrom([nodes |-> NodesOf(es), edges |-> es], {n0}) = NodesOf(es)

\* the elementary cycles of g with at least one buildable member
FatalCycles(g) ==
    {es \in SUBSET g.edges : IsCycle(es) /\ \E n \in NodesOf(es) : HasCommand(n)}

\* C5: cycle detection raises exactly when the composed graph has an
\* elementary cycle with a buildable member, it then reports every such
\* cycle, and cycles of external nodes alone pass
C5_CycleErrorIffFatalCycle ==
    /\ error.kind = "BUILD_TREE_CYCLE" =>
          /\ FatalCycles(tree) # {}
          /\ error.msg.cycles = FatalCycles(tree)
    /\ pc = "start_nodes" =>
          /\ FatalCycles(tree) = {}
          /\ \A n \in Buildable(tree) : ~Reaches(tree, n, n)

\* detection fails on a cycle of two recipes while the graph also holds a
\* cycle of an external node alone, which the report leaves out
C5_Witness ==
    /\ error.kind = "BUILD_TREE_CYCLE"
    /\ \E n \in tree.nodes : ~HasCommand(n) /\ <<n, n>> \in tree.edges
    /\ \E es \in error.msg.cycles : Cardinality(es) = 2
    /\ \A es \in error.msg.cycles : \E n \in NodesOf(es) : HasCommand(n)

\* the subgraph induced by the buildable nodes
Induced(g) ==
    [nodes |-> Buildable(g),
     edges |-> {e \in g.edges : HasCommand(e[1]) /\ HasCommand(e[2])}]

AfterLastDetection ==
    \/ pc \in {"validate", "strip", "done", "iterated"}
    \/ pc = "start_nodes" /\ vidx = Len(possible_variants)
    \/ error.kind = "VALIDATE_BUILD_TREE"

\* C6: once cycle detection has passed for the last variant, before and
\* after the stripping pass, the subgraph induced by the buildable nodes has
\* no cycle and no self-loop
C6_BuildableSubgraphAcyclic ==
    AfterLastDetection =>
        \A n \in Buildable(tree) : ~Reaches(Induced(tree), n, n)

\* two variants are composed and stripped, and the stripping pass has bridged
\* an external node: a buildable node has an edge its recipe does not declare
C6_Witness ==
    /\ pc = "done"
    /\ Len(possible_variants) = 2
    /\ \E e \in tree.edges :
          StrippedNames(e[2].packages) \cap
              StrippedNames(e[1].build_command.dependencies) = {}

\* the requested packages no buildable node of graph t provides
Unmatched(t, packages) ==
    {p \in packages : \A n \in Buildable(t) : p \notin n.packages}

\* C8: finishing a variant logs a notice for exactly the requested packages
\* no buildable node of the variant provides, puts no node in the start set
\* for them, raises nothing, and goes on to the next variant or to validation
C8_UnmatchedPackageNoticed ==
    [][pc = "start_nodes" =>
          /\ notices' = notices \cup
                 {<<p, variant_string(variant)>> :
                     p \in Unmatched(variant_tree, packages_arg)}
          /\ \A n \in start_nodes' :
                 n.packages \cap Unmatched(variant_tree, packages_arg) = {}
          /\ error' = NoError
          /\ pc' \in {"create_nodes", "validate"}
          /\ Len(validate_args') = Len(validate_args) + 1]_vars

\* both variants are finished with a filter of one matching and one
\* unmatched name: a notice per variant, and start nodes all the same
C8_Witness ==
    /\ pc = "validate"
    /\ Len(validate_args) = 2
    /\ packages_arg = {Pkg("a", ""), Pkg("zz", "")}
    /\ notices = {<<Pkg("zz", ""), variant_string(possible_variants[1])>>,
                  <<Pkg("zz", ""), variant_string(possible_variants[2])>>}
    /\ Cardinality(initial_nodes) = 2

\* C10: when node creation, linking or remote resolution raises, the
\* constructor raises one CREATE_BUILD_TREE error with the message of the
\* original error, the variant at hand and every later one stay unprocessed,
\* neither validation nor stripping runs, and nothing more happens
C10_CreateFailureAborts ==
    error.cause # NoCause =>
        /\ pc = "failed"
        /\ error.kind = "CREATE_BUILD_TREE"
        /\ error.msg = error.cause.msg
        /\ error.msg # NoMsg
        /\ Len(validate_args) = vidx - 1
        /\ \A k \in vidx..Len(possible_variants) :
              variant_string(possible_variants[k]) \notin DOMAIN external_dependencies
        /\ ~ENABLED Next

\* remote resolution of the first of two variants fails: the second variant is
\* never processed and nothing is validated
C10_Witness ==
    /\ pc = "failed"
    /\ error.cause.kind = "REMOTE_PACKAGE_DEPENDENCIES"
    /\ error.msg = error.cause.msg
    /\ vidx = 1
    /\ Len(possible_variants) = 2
    /\ validate_args = <<>>

----------------------------------------------------------------------------
(* Statements the code does not meet *)

\* the buildable nodes of g, of the variant of command c, that provide the
\* stripped name of dependency d
Producers(g, c, d) ==
    {m \in Buildable(g) :
        /\ m.build_command.variant = c.variant
        /\ remove_version(d) \in StrippedNames(m.packages)}

\* C1: iterating the constructed tree yields, before each command, a command
\* producing every dependency it declares that a buildable node of the
\* same variant produces
C1_DeclaredDependenciesFirst ==
    pc = "iterated" =>
        \A i \in 1..Len(yielded) :
            \A d \in yielded[i].build_command.dependencies :
                Producers(tree, yielded[i].build_command, d) # {} =>
                    \E j \in 1..(i - 1) :
                        yielded[j] \in Producers(tree, yielded[i].build_command, d)

\* the buildable nodes of variant graph t whose package set meets the filter
Requested(t, packages) == {n \in Buildable(t) : n.packages \cap packages # {}}

\* C2: with a non-empty filter the start nodes of each variant are the
\* buildable nodes whose packages meet the filter, and iteration yields
\* those nodes and the buildable nodes they depend on, and no other
C2_FilterRestrictsIteration ==
    (pc = "iterated" /\ packages_arg # {}) =>
        /\ \A k \in 1..Len(validate_args) :
              validate_args[k].start_nodes =
                  Requested(validate_args[k].tree, packages_arg)
        /\ Range(yielded) =
              Buildable(tree) \cap
                  ReachFrom(tree, UNION {validate_args[k].start_nodes :
                                            k \in 1..Len(validate_args)})

\* C7: the stripping pass keeps reachability between buildable nodes
C7_StrippingKeepsReachability ==
    [][pc = "strip" =>
          \A a, b \in Buildable(tree) : Reaches(tree, a, b) => Reaches(tree', a, b)]_vars

\* the variant strings of the Cartesian product of the requested axes
RequestedVariants ==
    {variant_string([python |-> p, build_type |-> b, mpi_type |-> m, cudatoolkit |-> c]) :
        p \in axes.python_versions, b \in axes.build_types,
        m \in axes.mpi_types, c \in axes.cuda_versions}

\* C9: after construction each variant of the product has its entry in the
\* three per-variant maps and no other key has one, and the test feedstocks
\* of a variant are the repositories of the commands reachable from its
\* start nodes
C9_PerVariantEntries ==
    pc \in {"done", "iterated"} =>
        /\ DOMAIN external_dependencies = RequestedVariants
        /\ DOMAIN conda_env_files = RequestedVariants
        /\ DOMAIN test_feedstocks = RequestedVariants
        /\ Len(possible_variants) = Cardinality(RequestedVariants)
        /\ \A k \in 1..Len(possible_variants) :
              test_feedstocks[variant_string(possible_variants[k])] =
                  {n.build_command.repository :
                      n \in Buildable(validate_args[k].tree) \cap
                                ReachFrom(validate_args[k].tree,
                                          validate_args[k].start_nodes)}

\* the queries the channel answered with an error
FailedQueries == {q \in queried : channel[remove_version(q.package)].kind = "error"}

\* C11: when a channel query fails, nothing more is queried and the error
\* names every external node not yet resolved: the nodes left in the work
\* set and the node whose query failed
C11_FailureNamesUnresolved ==
    error.cause.kind = "REMOTE_PACKAGE_DEPENDENCIES" =>
        /\ pc = "failed"
        /\ Cardinality(FailedQueries) = 1
        /\ \A n \in deps \cup {q.node : q \in FailedQueries} :
              n.packages \subseteq error.msg.packages

\* C12: the channel is never queried for a buildable node nor for a package
\* name a buildable node of the variant graph provides
C12_LocalWinsOverRemote ==
    \A q \in queried :
        /\ ~HasCommand(q.node)
        /\ \A n \in Buildable(variant_tree) :
              remove_version(q.package) \notin StrippedNames(n.packages)

----------------------------------------------------------------------------
(* Properties of _create_edges (SpecEdges) *)

\* the nodes of graph t that provide the stripped name of dependency d
Providers(t, d) == {m \in t.nodes : remove_version(d) \in StrippedNames(m.packages)}

\* C13: after _create_edges every dependency of a buildable node is provided
\* by the node itself or by a node it has an edge to; a node the linker
\* created is external, holds exactly one dependency string of a buildable
\* node and is the only provider of its name; no node has an edge to itself
C13_EveryDependencyLinked ==
    pc \in {"linked", "relinked"} =>
        LET t == h_out[1].tree
        IN  /\ \A n \in Buildable(t) : \A d \in n.build_command.dependencies :
                  \/ n \in Providers(t, d)
                  \/ \E e \in t.edges : e[1] = n /\ e[2] \in Providers(t, d)
            /\ \A n \in t.nodes \ h_in.nodes :
                  /\ ~HasCommand(n)
                  /\ \E b \in Buildable(t) : \E d \in b.build_command.dependencies :
                        n.packages = {d} /\ Providers(t, d) = {n}
            /\ \A e \in t.edges : ~SameKey(e[1], e[2])

\* a linked graph with a created node, an edge to a node that was there and
\* a dependency the node provides itself
C13_Witness ==
    /\ pc = "linked"
    /\ h_out[1].tree.nodes \ h_in.nodes # {}
    /\ \E e \in h_out[1].tree.edges : e[2] \in h_in.nodes
    /\ \E n \in Buildable(h_in) : \E d \in n.build_command.dependencies :
          n \in Providers(h_in, d)

----------------------------------------------------------------------------
(* Properties of _create_remote_deps (Spec) *)

\* the stripped names the channel was asked about
QueriedNames == {remove_version(q.package) : q \in queried}

\* C14: a query answered with a package gives the queried node an edge to a
\* provider of each dependency of the answer; a node is created only for a
\* dependency without provider and is put in the work set; a virtual
\* package adds nothing and raises nothing; when resolution ends the work
\* set is empty and every external node has been processed
C14_RemoteDependenciesLinked ==
    [][pc = "remote" =>
          /\ \A q \in queried' \ queried :
                LET package_info == channel'[remove_version(q.package)]
                IN  /\ package_info.kind = "ok" =>
                          \A d \in package_info.dependencies :
                              \E e \in variant_tree'.edges :
                                  /\ SameKey(e[1], q.node)
                                  /\ e[2] \in Providers(variant_tree', d)
                    /\ package_info.kind = "virtual" =>
                          variant_tree' = variant_tree /\ error' = error /\ pc' = "remote"
          /\ \A n \in variant_tree'.nodes \ variant_tree.nodes :
                /\ ~HasCommand(n)
                /\ n \in deps'
                /\ \A p \in n.packages : Providers(variant_tree, p) = {}
          /\ pc' = "detect_cycle" =>
                /\ deps = {}
                /\ \A n \in variant_tree.nodes :
                      ~HasCommand(n) => StrippedNames(n.packages) \subseteq QueriedNames
    ]_vars

\* resolution has ended: x was answered with the dependency y, for which a
\* node was created and queried, and y with x, which was reused
C14_Witness ==
    /\ pc = "detect_cycle"
    /\ channel["x"] = [kind |-> "ok", dependencies |-> {Pkg("y", "")}]
    /\ channel["y"] = [kind |-> "ok", dependencies |-> {Pkg("x", "")}]
    /\ {"x", "y"} \subseteq QueriedNames
    /\ \E e \in variant_tree.edges :
          e[1].packages = {Pkg("y", "")} /\ Pkg("x", "") \in e[2].packages

RECURSIVE ChannelsOf(_)
\* the channels of a sequence of commands, one list after the other
ChannelsOf(cmds) ==
    IF cmds = <<>> THEN <<>> ELSE cmds[1].channels \o ChannelsOf(Tail(cmds))

C16_OneQueryPerName ==
    \A q1, q2 \in queried :
        remove_version(q1.package) = remove_version(q2.package) => q1 = q2

\* two external nodes carry x under different qualifiers and x was queried
C16_Witness ==
    /\ pc = "detect_cycle"
    /\ Cardinality({n \in variant_tree.nodes :
                       ~HasCommand(n) /\ "x" \in StrippedNames(n.packages)}) = 2
    /\ Cardinality({q \in queried : remove_version(q.package) = "x"}) = 1

----------------------------------------------------------------------------
(* Properties of DependencyNode (SpecNode) *)

\* C18: a node equals no value that is not a DependencyNode; two nodes that
\* both have a build command are equal iff the commands are equal; in every
\* other case two nodes are equal iff their package sets are equal
C18_NodeEquality ==
    pc \in {"compared", "inserted", "mutated"} =>
        LET self == h_in.self
            other == h_in.other
        IN  IF other \notin NodeValues
            THEN h_out.eq = FALSE
            ELSE IF self.build_command # None /\ other.build_command # None
            THEN h_out.eq = CommandEq(self.build_command, other.build_command)
            ELSE h_out.eq = (self.packages = other.packages)

\* a buildable node compared with an external node of the same packages
C18_Witness ==
    /\ pc = "compared"
    /\ h_in.other \in NodeValues
    /\ h_in.self.build_command # None
    /\ h_in.other.build_command = None
    /\ h_in.self.packages = h_in.other.packages
    /\ h_out.eq = TRUE

\* two nodes with equal build commands
EqualCommands ==
    /\ h_in.other \in NodeValues
    /\ h_in.self.build_command # None
    /\ h_in.other.build_command # None
    /\ CommandEq(h_in.self.build_command, h_in.other.build_command)

\* C19: two nodes with equal build commands are equal and have the same
\* hash, whatever their packages and channels; the hash of a node stays what
\* it was at construction; added to one graph the two are one node, and
\* composing graphs that hold them gives one node with the edges of both
C19_EqualCommandsOneKey ==
    /\ (pc \in {"compared", "inserted", "mutated"} /\ EqualCommands) =>
          h_out.eq = TRUE /\ h_out.hash = h_out.other_hash
    /\ pc = "mutated" => h_out.rehash = h_out.hash
    /\ (pc = "inserted" /\ EqualCommands) =>
          LET keys == {n \in h_out.composed.nodes :
                          /\ n.build_command # None
                          /\ CommandEq(n.build_command, h_in.self.build_command)}
          IN  /\ Cardinality(h_out.added.nodes) = 1
              /\ Cardinality(keys) = 1
              /\ Cardinality(h_out.composed.nodes) = 3
              /\ \A k \in keys : h_out.composed.edges = {<<k, TX>>, <<TC, k>>}

\* equal commands under different packages and channels, inserted
C19_Witness ==
    /\ pc = "inserted"
    /\ EqualCommands
    /\ h_in.self.packages # h_in.other.packages
    /\ h_in.self.channels # h_in.other.channels
    /\ h_in.self.build_command # h_in.other.build_command


----------------------------------------------------------------------------
(* Properties of get_installable_packages (SpecInstall) *)

\* the strings of a list
Entries(result) == {result[i] : i \in 1..Len(result)}

\* C20: whatever the order in which the collections and their strings are
\* processed, a base name for which some processed candidate has a version
\* qualifier is held by one qualified entry and its bare name is absent; the
\* candidates pkgA, pkgA >=2.0 and pkgB reduce to pkgA >=2.0 and pkgB
C20_QualifiedSupersedes ==
    /\ pc \in {"install", "installed"} =>
          \A c \in h_out.candidates :
             has_qualifier(c) =>
                /\ \E e \in h_out.retval :
                      split_name(e) = split_name(c) /\ has_qualifier(e)
                /\ bare(c) \notin h_out.retval
    /\ pc = "installed" =>
          /\ Entries(h_out.result) = h_out.retval
          /\ Len(h_out.result) = Cardinality(h_out.retval)
          /\ (h_out.candidates = {Pkg("pkgA", ""), Pkg("pkgA", ">=2.0"), Pkg("pkgB", "")}
                 => h_out.result = <<Pkg("pkgB", ""), Pkg("pkgA", ">=2.0")>>)

\* the three candidates of the example were reduced and returned
C20_Witness ==
    /\ pc = "installed"
    /\ h_out.candidates = {Pkg("pkgA", ""), Pkg("pkgA", ">=2.0"), Pkg("pkgB", "")}
    /\ Entries(h_out.result) = {Pkg("pkgA", ">=2.0"), Pkg("pkgB", "")}

\* the entries of a set of strings that have the base name of dep
SameName(deps_set, dep) == {e \in deps_set : split_name(e) = split_name(dep)}

\* at most one entry for each base name
OnePerName(deps_set) == \A e \in deps_set : SameName(deps_set, e) = {e}

\* C21: the result set holds at most one entry for a base name after every
\* pass of the merge loop, and after every check_and_add call and in the
\* returned list every processed candidate's base name has exactly one entry
C21_OneEntryPerName ==
    pc \in {"install", "installed"} =>
       /\ OnePerName(h_out.retval)
       /\ \A step \in h_out.steps : OnePerName(step)
       /\ \A c \in h_out.candidates : Cardinality(SameName(h_out.retval, c)) = 1
       /\ pc = "installed" =>
             /\ Len(h_out.result) = Cardinality(Entries(h_out.result))
             /\ OnePerName(Entries(h_out.result))
             /\ \A c \in h_out.candidates :
                   Cardinality(SameName(Entries(h_out.result), c)) = 1

\* two collections with differently qualified strings of one name were merged
\* in two or more passes and the list was returned
C21_Witness ==
    /\ pc = "installed"
    /\ {Pkg("pkgA", ">=2.0"), Pkg("pkgA", "2.0"), Pkg("pkgB", "1.*")} \subseteq h_out.candidates
    /\ Cardinality(h_out.steps) >= 2
    /\ Len(h_out.result) = 2

----------------------------------------------------------------------------
(* Properties of get_installable_packages on a graph (SpecPackages) *)

\* the nodes of the graph that provide the base name of a returned string
ProvidersOf(g, e) == {n \in g.nodes : split_name(e) \in StrippedNames(n.packages)}

\* C22: in independent mode no returned string names a package of a
\* buildable node, none is provided by a node with a buildable descendant,
\* and none is an output identifier of a buildable node
C22_IndependentOnly ==
    (pc = "packaged" /\ h_in.independent /\ ~h_out.raised) =>
       \A e \in Entries(h_out.result) :
          /\ \A n \in ProvidersOf(h_in.tree, e) :
                ~HasCommand(n) /\ is_independent(n, h_in.tree)
          /\ \A n \in h_in.tree.nodes :
                HasCommand(n) => e \notin {output_file_to_string(p) : p \in n.packages}

----------------------------------------------------------------------------
(* Properties of the stripping pass in BuildTree.__init__ (Spec) *)

\* the external nodes of a graph
ExternalNodes(g) == {n \in g.nodes : ~HasCommand(n)}

\* every variant has been composed and handed to validation with its own
\* graph, whose nodes are all in the composed graph
AllVariantsComposed ==
    /\ vidx = Len(possible_variants)
    /\ Len(validate_args) = Len(possible_variants)
    /\ \A i \in 1..Len(validate_args) :
          \A n \in validate_args[i].tree.nodes : HasNode(tree, n)

\* C23: a step that takes an external node out of the composed graph is the
\* stripping pass; the pass is entered once, when validation has returned
\* and every variant is composed, leaves the graphs given to validation as
\* they were, and from its end on the composed graph has no external node
C23_StrippedOnceAtTheEnd ==
    /\ [][/\ (ExternalNodes(tree) \ ExternalNodes(tree') # {}) => pc = "strip"
          /\ pc' = "strip" => (pc = "validate" /\ AllVariantsComposed)
          /\ pc = "strip" => (/\ pc' = "done"
                              /\ AllVariantsComposed
                              /\ validate_args' = validate_args
                              /\ ExternalNodes(tree') = {})
          /\ pc \in {"done", "iterated"} => pc' \in {"done", "iterated"}]_vars
    /\ [](pc \in {"done", "iterated"} => ExternalNodes(tree) = {})

\* two variants were validated with graphs that hold external nodes, and the
\* composed graph was stripped of them
C23_Witness ==
    /\ pc = "done"
    /\ Len(validate_args) = 2
    /\ \A i \in 1..2 : ExternalNodes(validate_args[i].tree) # {}
    /\ ExternalNodes(tree) = {}
    /\ tree.nodes # {}

\* C24: a traversal, whether its generator is asked for no item, some items
\* or all of them, and get_installable_packages, with or without start nodes,
\* leave the graph they are given with the nodes and edges it had; the start
\* node that stands for the start nodes is in none of them
C24_GraphUnchanged ==
    pc \in {"packaged", "requested"} =>
       /\ h_out.tree = h_in.tree
       /\ false_start_node \notin h_out.tree.nodes

\* a traversal from a start node that was asked for the first of two items
C24_Witness ==
    /\ pc = "requested"
    /\ h_in.starting_nodes = {JA}
    /\ <<JA, JB>> \in h_in.tree.edges
    /\ h_out.result = <<JB>>
    /\ h_out.tree.edges # {}

----------------------------------------------------------------------------
(* Properties of the tasks of _create_nodes (SpecCommands) *)

\* the nodes the entries of the environment files render to
RenderedNodes(feedstocks) ==
    UNION {_create_commands(feedstocks[i]).nodes : i \in 1..Len(feedstocks)}

\* C25: one task is scheduled for each distinct entry; a task only meets
\* directories that were there before the batch or that it made itself; and
\* the batch ends, in whatever order the tasks ran, with the graph of the
\* nodes of all entries
C25_TasksIndependent ==
    pc \in {"commands", "created", "batch_failed"} =>
       /\ Range(h_out.args) = Range(h_in.feedstocks)
       /\ Len(h_out.args) = Cardinality(Range(h_out.args))
       /\ \A i \in DOMAIN h_out.task : h_out.task[i].saw \subseteq {Before, i}
       /\ pc # "batch_failed"
       /\ pc = "created" => h_out.retval.nodes = RenderedNodes(h_in.feedstocks)

----------------------------------------------------------------------------
(* Properties of BuildTree.__iter__ and __len__ (Spec) *)

\* BuildTree.__len__: the number of nodes with a build command
TreeLen(g) == Cardinality({x \in g.nodes : HasCommand(x)})

\* C26: without a package filter, iterating a constructed tree yields every
\* buildable node of the composed graph once, so as many nodes as len(tree)
C26_IterationYieldsAll ==
    (pc = "iterated" /\ packages_arg = {}) =>
       /\ Range(yielded) = {x \in tree.nodes : HasCommand(x)}
       /\ Len(yielded) = TreeLen(tree)

----------------------------------------------------------------------------
(* Termination of _create_remote_deps (SpecRemote) *)

\* the stripped names of the packages of the nodes of a graph
GraphNames(g) == UNION {StrippedNames(n.packages) : n \in g.nodes}

\* C27: when every query returns, the work set of _create_remote_deps gets
\* empty or the resolution fails with the query's error, also when a package
\* depends on itself or on a package that depends on it; a turn of the loop
\* makes external nodes only for names no node of the graph had, one for a
\* name, and takes one node out of the work set
C27_RemoteResolutionTerminates ==
    /\ [][(pc = "remote" /\ deps # {}) =>
            LET new == variant_tree'.nodes \ variant_tree.nodes
            IN  /\ \A n \in new :
                      /\ ~HasCommand(n)
                      /\ StrippedNames(n.packages) \cap GraphNames(variant_tree) = {}
                /\ \A n, m \in new :
                      n # m => StrippedNames(n.packages) \cap StrippedNames(m.packages) = {}
                /\ deps' \subseteq deps \cup new
                /\ Cardinality(deps') < Cardinality(deps) + Cardinality(new) + 1
                /\ Cardinality(deps' \cap deps) < Cardinality(deps)]_vars
    /\ (pc = "remote") ~> (deps = {} \/ pc = "failed")

\* the resolution ended on a graph in which an external package depends on
\* itself, or on an external package that depends on it
C27_Witness ==
    /\ pc = "remote"
    /\ deps = {}
    /\ \E n, m \in variant_tree.nodes :
          /\ ~HasCommand(n) /\ ~HasCommand(m)
          /\ <<n, m>> \in variant_tree.edges
          /\ <<m, n>> \in variant_tree.edges

----------------------------------------------------------------------------
(* DependencyNode.__hash__ against DependencyNode.__eq__ (SpecNode) *)

\* C28: two values that compare equal have the same hash, also a buildable
\* node and an external node with the same packages, and a graph the two
\* were added to holds no two distinct nodes that compare equal
C28_HashConsistentWithEq ==
    /\ pc \in {"compared", "inserted", "mutated"} =>
          (h_out.eq => h_out.hash = h_out.other_hash)
    /\ pc = "inserted" =>
          \A n, m \in h_out.added.nodes : NodeEq(n, m) => n = m

====
